---------------------------- MODULE Spec2Model ----------------------------
(***************************************************************************)
(* A model of HashTable<Key, T, Hash, KeyEqual, AllowDuplicates>           *)
(* (src/HashTable.h): a separate-chaining hash table whose buckets are     *)
(* singly linked chains of heap nodes.  Keys and mapped values are small   *)
(* integers, Hash is std::hash<int> (the identity), KeyEqual is ==.        *)
(*                                                                         *)
(* The heap is explicit: a node is an address 1..MaxNodes holding          *)
(* (_data.first, _data.second, _next); 0 is nullptr.  Two table objects    *)
(* live in slots 1 and 2.  Every member function is an operator from       *)
(* (heap, table, arguments) to (heap, table, returned value); an action    *)
(* applies one member function to one table.                               *)
(***************************************************************************)
EXTENDS Integers, Sequences, FiniteSets, TLC

VARIABLES
    heap,   \* the nodes: address -> (live, key, val, next)
    tbl,    \* the table objects: slot -> (alive, _buckets, _size, _max_load)
    dup,    \* the template argument AllowDuplicates
    ret,    \* what the last call returned to its caller
    pc,     \* the caller: "idle", "returned", "crashed", "looping" or "rejected"
    acct    \* the caller's tally of insert and erase results

vars == <<heap, tbl, dup, ret, pc, acct>>

---------------------------------------------------------------------------
(* Bounds of the model *)

\* number of heap addresses (operator new fails beyond)
MaxNodes == 4
\* most nodes live at once where every member function is explored
MaxLive == 3
\* largest bucket array the model lets a table grow to
MaxBuckets == 16
\* most entries a duplicate-allowing table is filled with
MaxDup == 2
\* most successful inserts the caller's tally follows
MaxTally == 5
\* largest capacity argument given to HashTable(size_type)
MaxCap == 2
\* largest argument given to reserve(n)
MaxReserve == 9

Keys == {1, 2, 9}
\* the keys used where two tables are live: they share a bucket in arrays
\* of 1, 2 and 4 buckets and part in arrays of 8 and 16
PairKeys == {1, 5}
\* three keys that share a bucket in arrays of 2, 4 and 8 buckets
ChainKeys == {1, 9, 17}
Vals == {0, 1}
Tables == {1, 2}
NodeIds == 1..MaxNodes

\* max_load_factor is a float; the model keeps it in eighths (all exactly
\* representable): 6 is 0.75f, 1 is 0.125f, 16 is 2.0f
LoadDen == 8
DefaultMaxLoad == 6
LoadArgs == {1, DefaultMaxLoad, 16}

\* HashTable(size_type capacity = 16)
DefaultCapacity == 16
\* reserve(): std::max<size_type>(new_cap, 8)
MinReserve == 8

\* mapped_type() for an integral mapped type
DefaultValue == 0

---------------------------------------------------------------------------
(* Nodes and chains *)

FreeNode == [live |-> FALSE, key |-> 0, val |-> 0, next |-> 0]

Node(k, v, nxt) == [live |-> TRUE, key |-> k, val |-> v, next |-> nxt]

EmptyHeap == [n \in NodeIds |-> FreeNode]

FreeIds(h) == {n \in NodeIds : ~h[n].live}

\* how many more nodes the general specifications allocate
Avail(h) == MaxLive - Cardinality({n \in NodeIds : h[n].live})

\* operator new: the lowest free address
NewId(h) == CHOOSE n \in FreeIds(h) : \A m \in FreeIds(h) : n <= m

Hash(k) == k

RECURSIVE ChainFrom(_, _, _)
\* the nodes met following _next from n, at most fuel of them
ChainFrom(h, n, fuel) ==
    IF n = 0 \/ fuel = 0 THEN <<>>
    ELSE <<n>> \o ChainFrom(h, h[n].next, fuel - 1)

Chain(h, n) == ChainFrom(h, n, MaxNodes)

RECURSIVE Concat(_, _)
Concat(ss, i) == IF i > Len(ss) THEN <<>> ELSE ss[i] \o Concat(ss, i + 1)

\* all nodes in the order a walk over the bucket array meets them
AllNodes(h, T) == Concat([i \in 1..Len(T.buckets) |-> Chain(h, T.buckets[i])], 1)

get_key(h, n) == h[n].key

bucket_count(T) == Len(T.buckets)

\* _hash_fn(key) % _buckets.size(); only evaluated when the array is not empty
bucket_index(T, k) == Hash(k) % Len(T.buckets)

\* _buckets[index] for a 0-based index
BucketHead(T, index) == T.buckets[index + 1]

---------------------------------------------------------------------------
(* Growth *)

RECURSIVE Relink(_, _, _, _)
\* the loop body of rehash over the nodes in walk order: push each node at
\* the front of its new bucket
Relink(h, nb, nodes, i) ==
    IF i > Len(nodes) THEN [h |-> h, buckets |-> nb]
    ELSE LET n == nodes[i]
             index == Hash(get_key(h, n)) % Len(nb)
         IN  Relink([h EXCEPT ![n].next = nb[index + 1]],
                    [nb EXCEPT ![index + 1] = n], nodes, i + 1)

\* rehash that relinks the head of each bucket and not the rest of its chain
rehash_heads_only(h, T, new_cap) ==
    LET heads == SelectSeq(T.buckets, LAMBDA n : n # 0)
        R == Relink(h, [i \in 1..new_cap |-> 0], heads, 1)
    IN  [h |-> R.h, T |-> [T EXCEPT !.buckets = R.buckets]]

rehash(h, T, new_cap) ==
    LET R == Relink(h, [i \in 1..new_cap |-> 0], AllNodes(h, T), 1)
    IN  [h |-> R.h, T |-> [T EXCEPT !.buckets = R.buckets]]

\* the load test with >= in place of >
Overloaded_at_threshold(T) ==
    IF Len(T.buckets) = 0 THEN T.size > 0
    ELSE T.size * LoadDen >= T.max_load * Len(T.buckets)

\* static_cast<float>(_size) / _buckets.size() > _max_load
\* (x / 0.0f is +inf for x > 0 and NaN for x = 0, and NaN > m is false)
Overloaded(T) ==
    IF Len(T.buckets) = 0 THEN T.size > 0
    ELSE T.size * LoadDen > T.max_load * Len(T.buckets)

check_load(h, T) ==
    IF Overloaded(T) THEN rehash(h, T, Len(T.buckets) * 2)
    ELSE [h |-> h, T |-> T]

---------------------------------------------------------------------------
(* Iterators: (_bucket, _node); _bucket is an index into the array, the    *)
(* past-the-end index is bucket_count.                                     *)

RECURSIVE skip_empty(_, _)
skip_empty(T, b) ==
    IF b < Len(T.buckets) /\ T.buckets[b + 1] = 0 THEN skip_empty(T, b + 1)
    ELSE [bucket |-> b,
          node |-> IF b < Len(T.buckets) THEN T.buckets[b + 1] ELSE 0]

HashIterator(T, b, n) == IF n = 0 THEN skip_empty(T, b)
                         ELSE [bucket |-> b, node |-> n]

end(T) == HashIterator(T, Len(T.buckets), 0)

begin(T) == HashIterator(T, 0, 0)

\* operator++ that steps to the next bucket without skipping the empty ones
advance_to_next_bucket(h, T, it) ==
    LET nxt == h[it.node].next
    IN  IF nxt # 0 THEN [bucket |-> it.bucket, node |-> nxt]
        ELSE [bucket |-> it.bucket + 1,
              node |-> IF it.bucket + 1 < Len(T.buckets)
                       THEN T.buckets[it.bucket + 2] ELSE 0]

\* HashIterator::operator++ on an iterator that is not end
advance(h, T, it) ==
    LET nxt == h[it.node].next
    IN  IF nxt # 0 THEN [bucket |-> it.bucket, node |-> nxt]
        ELSE skip_empty(T, it.bucket + 1)

\* HashIterator::operator==: the nodes are compared, the buckets are not
iter_eq(a, b) == a.node = b.node

RECURSIVE iterate(_, _, _, _, _)
\* for (it = ...; it != end(); ++it): the nodes visited, and whether end was
\* met within fuel advances
iterate(h, T, it, seen, fuel) ==
    IF iter_eq(it, end(T)) THEN [visited |-> seen, ended |-> TRUE]
    ELSE IF fuel = 0 THEN [visited |-> seen, ended |-> FALSE]
    ELSE iterate(h, T, advance(h, T, it), Append(seen, it.node), fuel - 1)

\* for (const auto& kv : table)
range_for(h, T) == iterate(h, T, begin(T), <<>>, MaxNodes + 1)

---------------------------------------------------------------------------
(* Results of a call *)

Out(h, T, r) == [h |-> h, T |-> T, r |-> r]

\* op, t, key, val: the call and its arguments; st: "ok" (returned), "throw"
\* (std::out_of_range), "crash" (the process died), "hang" (the call never
\* returns), "ill-formed" (the call does not compile); flag: the bool of a returned pair; node: the _node of a returned
\* iterator, or the node a returned reference points into (0: nullptr);
\* n: a returned count or mapped value; made: the node the call allocated
NoRet == [op |-> "none", t |-> 0, key |-> 0, val |-> 0, st |-> "ok",
          flag |-> FALSE, node |-> 0, n |-> 0, made |-> 0]

Ret(op, k, v, st, flag, node, n, made) ==
    [op |-> op, t |-> 0, key |-> k, val |-> v, st |-> st,
     flag |-> flag, node |-> node, n |-> n, made |-> made]

\* _hash_fn(key) % _buckets.size() with an empty bucket array: an integer
\* division by zero, which traps (SIGFPE on x86; where the division does not
\* trap the following _buckets[index] reads through the null data pointer)
Crash(h, T, op, k, v) == Out(h, T, Ret(op, k, v, "crash", FALSE, 0, 0, 0))

RECURSIVE find_from(_, _, _, _)
\* the scan loop shared by find_node, insert, try_emplace, insert_or_assign
find_from(h, n, k, fuel) ==
    IF n = 0 \/ fuel = 0 THEN 0
    ELSE IF get_key(h, n) = k THEN n
    ELSE find_from(h, h[n].next, k, fuel - 1)

find_node(h, T, k, index) == find_from(h, BucketHead(T, index), k, MaxNodes)

---------------------------------------------------------------------------
(* Insertion *)

\* lines 405-408: link a new node at the head of bucket index, count it,
\* check the load, and build the returned iterator from the index computed
\* before the load check
\* link_new without ++_size
link_new_uncounted(h, T, index, k, v, op) ==
    LET id == NewId(h)
        h1 == [h EXCEPT ![id] = Node(k, v, BucketHead(T, index))]
        T1 == [T EXCEPT !.buckets[index + 1] = id]
        G  == check_load(h1, T1)
        it == HashIterator(G.T, index, BucketHead(G.T, index))
    IN  Out(G.h, G.T, Ret(op, k, v, "ok", TRUE, it.node, 0, id))

link_new(h, T, index, k, v, op) ==
    LET id == NewId(h)
        h1 == [h EXCEPT ![id] = Node(k, v, BucketHead(T, index))]
        T1 == [T EXCEPT !.buckets[index + 1] = id, !.size = T.size + 1]
        G  == check_load(h1, T1)
        it == HashIterator(G.T, index, BucketHead(G.T, index))
    IN  Out(G.h, G.T, Ret(op, k, v, "ok", TRUE, it.node, 0, id))

\* insert that skips the scan for an equal key whatever AllowDuplicates is
insert_without_scan(h, T, k, v, d) ==
    IF Len(T.buckets) = 0 THEN Crash(h, T, "insert", k, v)
    ELSE link_new(h, T, bucket_index(T, k), k, v, "insert")

insert(h, T, k, v, d) ==
    IF Len(T.buckets) = 0 THEN Crash(h, T, "insert", k, v)
    ELSE LET index == bucket_index(T, k)
             node == IF d THEN 0 ELSE find_node(h, T, k, index)
         IN  IF node # 0
             THEN Out(h, T, Ret("insert", k, v, "ok", FALSE, node, 0, 0))
             ELSE link_new(h, T, index, k, v, "insert")

\* emplace builds the value and returns insert(val)
emplace(h, T, k, v, d) ==
    LET R == insert(h, T, k, v, d)
    IN  Out(R.h, R.T, R.r)

try_emplace(h, T, k, v, d) ==
    IF Len(T.buckets) = 0 THEN Crash(h, T, "try_emplace", k, v)
    ELSE LET index == bucket_index(T, k)
             node == IF d THEN 0 ELSE find_node(h, T, k, index)
         IN  IF node # 0
             THEN Out(h, T, Ret("try_emplace", k, v, "ok", FALSE, node, 0, 0))
             ELSE link_new(h, T, index, k, v, "try_emplace")

\* scans whatever AllowDuplicates is; on a match assigns _data.second
insert_or_assign(h, T, k, v, d) ==
    IF Len(T.buckets) = 0 THEN Crash(h, T, "insert_or_assign", k, v)
    ELSE LET index == bucket_index(T, k)
             node == find_node(h, T, k, index)
         IN  IF node # 0
             THEN Out([h EXCEPT ![node].val = v], T,
                      Ret("insert_or_assign", k, v, "ok", FALSE, node, 0, 0))
             ELSE link_new(h, T, index, k, v, "insert_or_assign")

\* lines 565-569: as link_new, but the reference returned is
\* _buckets[index]->_data.second, with no skip over an empty bucket
index_new(h, T, index, k, op) ==
    LET R == link_new(h, T, index, k, DefaultValue, op)
        at_index == BucketHead(R.T, index)
    IN  Out(R.h, R.T, [R.r EXCEPT !.node = at_index,
                                  !.n = IF at_index = 0 THEN 0 ELSE R.h[at_index].val])

\* operator[] that adds a node without scanning the chain
index_const_without_scan(h, T, k, d) ==
    IF Len(T.buckets) = 0 THEN Crash(h, T, "operator[]", k, DefaultValue)
    ELSE index_new(h, T, bucket_index(T, k), k, "operator[]")

\* operator[](const Key&)
index_const(h, T, k, d) ==
    IF Len(T.buckets) = 0 THEN Crash(h, T, "operator[]", k, DefaultValue)
    ELSE LET index == bucket_index(T, k)
             node == find_node(h, T, k, index)
         IN  IF node # 0
             THEN Out(h, T, Ret("operator[]", k, DefaultValue, "ok", FALSE,
                                node, h[node].val, 0))
             ELSE index_new(h, T, index, k, "operator[]")

\* operator[](Key&&): the scan loop never advances node.  On a head with
\* another key it is a loop without side effects that never ends, which is
\* undefined behaviour: the build either spins for ever or, taking the loop
\* to end, leaves it through its only exit, the return of the head's value
\* (exits)
index_move(h, T, k, d, exits) ==
    IF Len(T.buckets) = 0 THEN Crash(h, T, "operator[]&&", k, DefaultValue)
    ELSE LET index == bucket_index(T, k)
             node == BucketHead(T, index)
         IN  IF node # 0 /\ get_key(h, node) = k
             THEN Out(h, T, Ret("operator[]&&", k, DefaultValue, "ok", FALSE,
                                node, h[node].val, 0))
             ELSE IF node # 0 /\ exits
             THEN Out(h, T, Ret("operator[]&&", k, DefaultValue, "ok", FALSE,
                                node, h[node].val, 0))
             ELSE IF node # 0
             THEN Out(h, T, Ret("operator[]&&", k, DefaultValue, "hang", FALSE, 0, 0, 0))
             ELSE index_new(h, T, index, k, "operator[]&&")

---------------------------------------------------------------------------
(* Lookup *)

\* find that checks the load before it looks the key up
find_after_check_load(h, T, k) ==
    IF Len(T.buckets) = 0 THEN Crash(h, T, "find", k, 0)
    ELSE LET G == check_load(h, T)
             index == bucket_index(G.T, k)
             node == find_node(G.h, G.T, k, index)
             it == IF node = 0 THEN end(G.T) ELSE HashIterator(G.T, index, node)
         IN  Out(G.h, G.T, Ret("find", k, 0, "ok", FALSE, it.node, 0, 0))

find(h, T, k) ==
    IF Len(T.buckets) = 0 THEN Crash(h, T, "find", k, 0)
    ELSE LET index == bucket_index(T, k)
             node == find_node(h, T, k, index)
             it == IF node = 0 THEN end(T) ELSE HashIterator(T, index, node)
         IN  Out(h, T, Ret("find", k, 0, "ok", FALSE, it.node, 0, 0))

RECURSIVE count_from(_, _, _, _)
count_from(h, n, k, fuel) ==
    IF n = 0 \/ fuel = 0 THEN 0
    ELSE (IF get_key(h, n) = k THEN 1 ELSE 0) + count_from(h, h[n].next, k, fuel - 1)

count(h, T, k) ==
    IF Len(T.buckets) = 0 THEN Crash(h, T, "count", k, 0)
    ELSE Out(h, T, Ret("count", k, 0, "ok", FALSE, 0,
                       count_from(h, BucketHead(T, bucket_index(T, k)), k, MaxNodes), 0))

\* takes the head of the bucket without comparing keys
at(h, T, k) ==
    IF Len(T.buckets) = 0 THEN Crash(h, T, "at", k, 0)
    ELSE LET node == BucketHead(T, bucket_index(T, k))
         IN  IF node = 0
             THEN Out(h, T, Ret("at", k, 0, "throw", FALSE, 0, 0, 0))
             ELSE Out(h, T, Ret("at", k, 0, "ok", FALSE, node, h[node].val, 0))

\* equal_range: (find(key), the position after it); n is the _node of the
\* second iterator
equal_range(h, T, k) ==
    IF Len(T.buckets) = 0 THEN Crash(h, T, "equal_range", k, 0)
    ELSE LET index == bucket_index(T, k)
             node == find_node(h, T, k, index)
             it == IF node = 0 THEN end(T) ELSE HashIterator(T, index, node)
             next == IF iter_eq(it, end(T)) THEN it ELSE advance(h, T, it)
         IN  Out(h, T, Ret("equal_range", k, 0, "ok", FALSE, it.node, next.node, 0))

\* a full traversal by the caller: n is the number of advances made
traverse(h, T) ==
    LET W == range_for(h, T)
    IN  Out(h, T, Ret("traverse", 0, 0, IF W.ended THEN "ok" ELSE "hang", FALSE,
                      0, Len(W.visited), 0))

\* operator==(const HashTable& other): flag is the bool returned
operator_eq(h, T, other) ==
    LET W == range_for(h, T)
        found(n) == find(h, other, get_key(h, n)).r.node
        same(n) == /\ found(n) # 0
                   /\ h[found(n)].key = h[n].key /\ h[found(n)].val = h[n].val
    IN  IF T.size # other.size
        THEN Out(h, T, Ret("operator==", 0, 0, "ok", FALSE, 0, 0, 0))
        ELSE IF Len(W.visited) > 0 /\ Len(other.buckets) = 0
        THEN Crash(h, T, "operator==", 0, 0)
        ELSE Out(h, T, Ret("operator==", 0, 0, "ok",
                           \A i \in 1..Len(W.visited) : same(W.visited[i]), 0, 0, 0))

\* HashTable::operator!=: return !(*this, other).  The comma expression is
\* its right operand, other, and ! has no meaning on a HashTable (the class
\* has neither operator! nor a conversion to bool): the body is ill-formed
\* and a translation unit that calls the function is rejected
operator_ne(h, T, other) ==
    Out(h, T, Ret("operator!=", 0, 0, "ill-formed", FALSE, 0, 0, 0))

\* Unordered_Set::operator==: _table == other._table
set_eq(h, T, other) ==
    LET E == operator_eq(h, T, other)
    IN  Out(E.h, E.T, [E.r EXCEPT !.op = "Unordered_Set::operator=="])

\* Unordered_Set::operator!=: !(*this == other)
set_ne(h, T, other) ==
    LET E == set_eq(h, T, other)
    IN  Out(E.h, E.T, [E.r EXCEPT !.op = "Unordered_Set::operator!=",
                                  !.flag = (E.r.st = "ok" /\ ~E.r.flag)])

---------------------------------------------------------------------------
(* Removal *)

RECURSIVE erase_walk(_, _, _, _, _, _, _)
\* the while loop of erase: W is (h, head), current and prev the two cursors
erase_walk(W, current, prev, k, d, cnt, fuel) ==
    IF current = 0 \/ fuel = 0 THEN [h |-> W.h, head |-> W.head, count |-> cnt]
    ELSE IF get_key(W.h, current) = k
    THEN LET nxt == W.h[current].next
             h1 == IF prev # 0 THEN [W.h EXCEPT ![prev].next = nxt] ELSE W.h
             hd == IF prev # 0 THEN W.head ELSE nxt
             W1 == [h |-> [h1 EXCEPT ![current] = FreeNode], head |-> hd]
         IN  IF d THEN erase_walk(W1, nxt, prev, k, d, cnt + 1, fuel - 1)
             ELSE [h |-> W1.h, head |-> W1.head, count |-> cnt + 1]
    ELSE erase_walk(W, W.h[current].next, current, k, d, cnt, fuel - 1)

\* erase that rehashes into an array of the same length after unlinking
erase_then_rehash(h, T, k, d) ==
    IF Len(T.buckets) = 0 THEN Crash(h, T, "erase", k, 0)
    ELSE LET index == Hash(k) % Len(T.buckets)
             head == BucketHead(T, index)
             E == erase_walk([h |-> h, head |-> head], head, 0, k, d, 0, MaxNodes)
             R == rehash(E.h, [T EXCEPT !.buckets[index + 1] = E.head,
                                        !.size = T.size - E.count], Len(T.buckets))
         IN  Out(R.h, R.T, Ret("erase", k, 0, "ok", FALSE, 0, E.count, 0))

\* erase without --_size
erase_keeps_size(h, T, k, d) ==
    IF Len(T.buckets) = 0 THEN Crash(h, T, "erase", k, 0)
    ELSE LET index == Hash(k) % Len(T.buckets)
             head == BucketHead(T, index)
             E == erase_walk([h |-> h, head |-> head], head, 0, k, d, 0, MaxNodes)
         IN  Out(E.h, [T EXCEPT !.buckets[index + 1] = E.head],
                 Ret("erase", k, 0, "ok", FALSE, 0, E.count, 0))

erase(h, T, k, d) ==
    IF Len(T.buckets) = 0 THEN Crash(h, T, "erase", k, 0)
    ELSE LET index == Hash(k) % Len(T.buckets)
             head == BucketHead(T, index)
             E == erase_walk([h |-> h, head |-> head], head, 0, k, d, 0, MaxNodes)
         IN  Out(E.h, [T EXCEPT !.buckets[index + 1] = E.head,
                                !.size = T.size - E.count],
                 Ret("erase", k, 0, "ok", FALSE, 0, E.count, 0))

\* clear that destroys the nodes and leaves the bucket heads as they were
clear_keeps_heads(h, T) ==
    LET doomed == {AllNodes(h, T)[i] : i \in 1..Len(AllNodes(h, T))}
    IN  Out([n \in NodeIds |-> IF n \in doomed THEN FreeNode ELSE h[n]],
            [T EXCEPT !.size = 0],
            Ret("clear", 0, 0, "ok", FALSE, 0, 0, 0))

clear(h, T) ==
    LET doomed == {AllNodes(h, T)[i] : i \in 1..Len(AllNodes(h, T))}
    IN  Out([n \in NodeIds |-> IF n \in doomed THEN FreeNode ELSE h[n]],
            [T EXCEPT !.buckets = [i \in 1..Len(T.buckets) |-> 0], !.size = 0],
            Ret("clear", 0, 0, "ok", FALSE, 0, 0, 0))

---------------------------------------------------------------------------
(* Capacity *)

Max(a, b) == IF a >= b THEN a ELSE b

\* reserve that resizes the bucket array and leaves every chain where it is
reserve_without_relink(h, T, n) ==
    LET new_cap == Max(Max(n, T.size), MinReserve)
        nb == [i \in 1..new_cap |-> IF i <= Len(T.buckets) THEN T.buckets[i] ELSE 0]
    IN  Out(h, [T EXCEPT !.buckets = nb], Ret("reserve", 0, 0, "ok", FALSE, 0, n, 0))

reserve(h, T, n) ==
    LET new_cap == Max(Max(n, T.size), MinReserve)
        R == rehash(h, T, new_cap)
    IN  Out(R.h, R.T, Ret("reserve", 0, 0, "ok", FALSE, 0, n, 0))

\* max_load_factor(float new_max)
set_max_load_factor(h, T, f) ==
    LET R == check_load(h, [T EXCEPT !.max_load = f])
    IN  Out(R.h, R.T, Ret("max_load_factor", 0, 0, "ok", FALSE, 0, f, 0))

---------------------------------------------------------------------------
(* Construction *)

\* HashTable(size_type capacity)
Construct(capacity) ==
    [alive |-> TRUE, buckets |-> [i \in 1..capacity |-> 0], size |-> 0,
     max_load |-> DefaultMaxLoad]

Dead == [alive |-> FALSE, buckets |-> <<>>, size |-> 0, max_load |-> DefaultMaxLoad]

\* the members as their default initialisers leave them, before the body of
\* a constructor without a member initialiser list runs
Members == [alive |-> TRUE, buckets |-> <<>>, size |-> 0, max_load |-> DefaultMaxLoad]

RECURSIVE insert_all(_, _, _, _, _)
\* for (const auto& kv : ...) insert(kv);
insert_all(h, T, kvs, i, d) ==
    IF i > Len(kvs) THEN [h |-> h, T |-> T]
    ELSE LET R == insert(h, T, kvs[i][1], kvs[i][2], d)
         IN  insert_all(R.h, R.T, kvs, i + 1, d)

\* HashTable(std::initializer_list<value_type> init) : HashTable(init.size())
construct_list(h, init, d) == insert_all(h, Construct(Len(init)), init, 1, d)

\* the elements of other in begin()..end() order
Elements(h, T) == [i \in 1..Len(AllNodes(h, T)) |->
                      <<h[AllNodes(h, T)[i]].key, h[AllNodes(h, T)[i]].val>>]

\* reserve(other._buckets.size()); for (const auto& kv : other) insert(kv);
copy_from(h, T, other, d) ==
    LET R == reserve(h, T, Len(other.buckets))
    IN  insert_all(R.h, R.T, Elements(h, other), 1, d)

\* operator=(const HashTable&): self is this == &other
copy_assign(h, T, other, self, d) ==
    IF self THEN [h |-> h, T |-> T]
    ELSE LET C == clear(h, T)
         IN  copy_from(C.h, C.T, other, d)

\* swap(HashTable& other): _buckets, _size, _max_load change sides (the hash
\* and equality functors are stateless)
swap(T, other) ==
    [this  |-> [T EXCEPT !.buckets = other.buckets, !.size = other.size,
                         !.max_load = other.max_load],
     other |-> [other EXCEPT !.buckets = T.buckets, !.size = T.size,
                             !.max_load = T.max_load]]

---------------------------------------------------------------------------
(* Actions *)

\* where the caller is after a call: holding what it returned (or threw),
\* dead with the process, or waiting for ever
PcOf(st) == IF st = "crash" THEN "crashed"
            ELSE IF st = "hang" THEN "looping"
            ELSE IF st = "ill-formed" THEN "rejected" ELSE "returned"

\* the effect of a call on table t
ApplyCall(t, R) ==
    /\ Len(R.T.buckets) <= MaxBuckets
    /\ heap' = R.h
    /\ tbl' = [tbl EXCEPT ![t] = R.T]
    /\ ret' = [R.r EXCEPT !.t = t]
    /\ pc' = PcOf(R.r.st)
    /\ UNCHANGED dup

Apply(t, R) == ApplyCall(t, R) /\ UNCHANGED acct

Callable(t) == pc = "idle" /\ tbl[t].alive

\* an insertion can allocate: fewer than MaxLive nodes are live and, under
\* AllowDuplicates (where nothing else limits the size), room under MaxDup
Room(t) == Avail(heap) > 0 /\ (dup => tbl[t].size < MaxDup)

\* the caller lets go of the returned iterator, reference or count
Return ==
    /\ pc = "returned"
    /\ pc' = "idle"
    /\ ret' = NoRet
    /\ UNCHANGED <<heap, tbl, dup, acct>>

Insert(t, k, v) ==
    /\ Callable(t)
    /\ Room(t)
    /\ Apply(t, insert(heap, tbl[t], k, v, dup))

Emplace(t, k, v) ==
    /\ Callable(t)
    /\ Room(t)
    /\ Apply(t, emplace(heap, tbl[t], k, v, dup))

TryEmplace(t, k, v) ==
    /\ Callable(t)
    /\ Room(t)
    /\ Apply(t, try_emplace(heap, tbl[t], k, v, dup))

InsertOrAssign(t, k, v) ==
    /\ Callable(t)
    /\ Room(t)
    /\ Apply(t, insert_or_assign(heap, tbl[t], k, v, dup))

IndexConst(t, k) ==
    /\ Callable(t)
    /\ Room(t)
    /\ Apply(t, index_const(heap, tbl[t], k, dup))

IndexMove(t, k) ==
    /\ Callable(t)
    /\ Room(t)
    /\ \E exits \in BOOLEAN : Apply(t, index_move(heap, tbl[t], k, dup, exits))

Find(t, k) == Callable(t) /\ Apply(t, find(heap, tbl[t], k))

Count(t, k) == Callable(t) /\ Apply(t, count(heap, tbl[t], k))

At(t, k) == Callable(t) /\ Apply(t, at(heap, tbl[t], k))

EqualRange(t, k) == Callable(t) /\ Apply(t, equal_range(heap, tbl[t], k))

\* for (auto it = begin(); it != end(); ++it)
Traverse(t) == Callable(t) /\ Apply(t, traverse(heap, tbl[t]))

Erase(t, k) == Callable(t) /\ Apply(t, erase(heap, tbl[t], k, dup))

Clear(t) == Callable(t) /\ Apply(t, clear(heap, tbl[t]))

Reserve(t, n) == Callable(t) /\ Apply(t, reserve(heap, tbl[t], n))

MaxLoadFactor(t, f) == Callable(t) /\ Apply(t, set_max_load_factor(heap, tbl[t], f))

\* the calls that can change a table, with keys from KS, capacities from NS
\* and thresholds from FS
Modify(t, KS, NS, FS) ==
    \/ \E k \in KS, v \in Vals : Insert(t, k, v)
    \/ \E k \in KS, v \in Vals : Emplace(t, k, v)
    \/ \E k \in KS, v \in Vals : TryEmplace(t, k, v)
    \/ \E k \in KS, v \in Vals : InsertOrAssign(t, k, v)
    \/ \E k \in KS : IndexConst(t, k)
    \/ \E k \in KS : IndexMove(t, k)
    \/ \E k \in KS : Erase(t, k)
    \/ Clear(t)
    \/ \E n \in NS : Reserve(t, n)
    \/ \E f \in FS : MaxLoadFactor(t, f)

\* the lookups
Lookup(t, KS) ==
    \/ \E k \in KS : Find(t, k)
    \/ \E k \in KS : Count(t, k)
    \/ \E k \in KS : At(t, k)
    \/ \E k \in KS : EqualRange(t, k)
    \/ Traverse(t)

---------------------------------------------------------------------------
(* Two tables *)

Other(t) == 3 - t

\* the effect of a call on table t that also touches table u
Apply2(t, u, h, Tt, Tu, op) ==
    /\ Len(Tt.buckets) <= MaxBuckets
    /\ Len(Tu.buckets) <= MaxBuckets
    /\ heap' = h
    /\ tbl' = [x \in Tables |-> IF x = t THEN Tt ELSE IF x = u THEN Tu ELSE tbl[x]]
    /\ ret' = [Ret(op, 0, 0, "ok", FALSE, 0, u, 0) EXCEPT !.t = t]
    /\ pc' = "returned"
    /\ UNCHANGED <<dup, acct>>

\* HashTable(size_type capacity) in a free slot
ConstructCap(t, c) ==
    /\ pc = "idle" /\ ~tbl[t].alive
    /\ Apply2(t, t, heap, Construct(c), Construct(c), "HashTable(n)")

\* HashTable(std::initializer_list<value_type>) in a free slot
ConstructList(t, init) ==
    /\ pc = "idle" /\ ~tbl[t].alive
    /\ Avail(heap) >= Len(init)
    /\ LET R == construct_list(heap, init, dup)
       IN  Apply2(t, t, R.h, R.T, R.T, "HashTable{...}")

\* HashTable(const HashTable& other) in a free slot
CopyConstruct(t, u) ==
    /\ pc = "idle" /\ ~tbl[t].alive /\ tbl[u].alive
    /\ Avail(heap) >= tbl[u].size
    /\ LET R == copy_from(heap, Members, tbl[u], dup)
       IN  Apply2(t, u, R.h, R.T, tbl[u], "HashTable(const&)")

\* HashTable(HashTable&& other) in a free slot
MoveConstruct(t, u) ==
    /\ pc = "idle" /\ ~tbl[t].alive /\ tbl[u].alive
    /\ LET S == swap(Members, tbl[u])
       IN  Apply2(t, u, heap, S.this, S.other, "HashTable(&&)")

\* operator=(const HashTable& other); u = t is self-assignment
CopyAssign(t, u) ==
    /\ pc = "idle" /\ tbl[t].alive /\ tbl[u].alive
    /\ t # u => Avail(heap) + tbl[t].size >= tbl[u].size
    /\ LET R == copy_assign(heap, tbl[t], tbl[u], t = u, dup)
       IN  Apply2(t, u, R.h, R.T, IF t = u THEN R.T ELSE tbl[u], "operator=(const&)")

\* operator=(HashTable&& other)
MoveAssign(t, u) ==
    /\ pc = "idle" /\ tbl[t].alive /\ tbl[u].alive
    /\ LET S == IF t = u THEN [this |-> tbl[t], other |-> tbl[t]]
                ELSE swap(tbl[t], tbl[u])
       IN  Apply2(t, u, heap, S.this, S.other, "operator=(&&)")

\* swap(HashTable& other)
Swap(t, u) ==
    /\ pc = "idle" /\ tbl[t].alive /\ tbl[u].alive /\ t # u
    /\ LET S == swap(tbl[t], tbl[u])
       IN  Apply2(t, u, heap, S.this, S.other, "swap")

\* ~HashTable()
Destroy(t) ==
    /\ Callable(t)
    /\ LET R == clear(heap, tbl[t])
       IN  Apply2(t, t, R.h, Dead, Dead, "~HashTable")

\* tbl[t] == tbl[u]; n is the right operand
Equals(t, u) ==
    /\ pc = "idle" /\ tbl[t].alive /\ tbl[u].alive
    /\ LET R == operator_eq(heap, tbl[t], tbl[u])
       IN  Apply(t, Out(R.h, R.T, [R.r EXCEPT !.n = u]))

\* tbl[t] != tbl[u]
NotEquals(t, u) ==
    /\ pc = "idle" /\ tbl[t].alive /\ tbl[u].alive
    /\ LET R == operator_ne(heap, tbl[t], tbl[u])
       IN  Apply(t, Out(R.h, R.T, [R.r EXCEPT !.n = u]))

\* the same two tables as the _table members of two Unordered_Set objects
\* (AllowDuplicates = false), compared with the set's operator!=
SetNotEquals(t, u) ==
    /\ pc = "idle" /\ tbl[t].alive /\ tbl[u].alive /\ ~dup
    /\ LET R == set_ne(heap, tbl[t], tbl[u])
       IN  Apply(t, Out(R.h, R.T, [R.r EXCEPT !.n = u]))

\* insert while a heap address is free
Build(t, k, v) ==
    /\ Callable(t)
    /\ FreeIds(heap) # {} /\ (dup => tbl[t].size < MaxDup)
    /\ Apply(t, insert(heap, tbl[t], k, v, dup))

NoAcct == [ins |-> 0, era |-> 0]

\* one table, constructed by HashTable(capacity) or HashTable()
Init ==
    /\ heap = EmptyHeap
    /\ dup \in BOOLEAN
    /\ \E c \in (0..MaxCap) \cup {DefaultCapacity} :
          tbl = [t \in Tables |-> IF t = 1 THEN Construct(c) ELSE Dead]
    /\ ret = NoRet
    /\ pc = "idle"
    /\ acct = NoAcct

\* no table constructed yet
InitPair ==
    /\ heap = EmptyHeap
    /\ dup \in BOOLEAN
    /\ tbl = [t \in Tables |-> Dead]
    /\ ret = NoRet
    /\ pc = "idle"
    /\ acct = NoAcct

\* one table object and every call on it
Next ==
    \/ Modify(1, Keys, 0..MaxReserve, LoadArgs)
    \/ Lookup(1, Keys)
    \/ Return

Spec == Init /\ [][Next]_vars

\* insert and erase on an initially empty table, the caller adding up the
\* results: the inserts that returned true and the counts erase returned
TallyInsert(t, k, v) ==
    /\ Callable(t) /\ Room(t)
    /\ acct.ins < MaxTally
    /\ LET R == insert(heap, tbl[t], k, v, dup)
       IN  /\ ApplyCall(t, R)
           /\ acct' = [acct EXCEPT !.ins = @ + (IF R.r.st = "ok" /\ R.r.flag THEN 1 ELSE 0)]

TallyErase(t, k) ==
    /\ Callable(t)
    /\ LET R == erase(heap, tbl[t], k, dup)
       IN  /\ ApplyCall(t, R)
           /\ acct' = [acct EXCEPT !.era = @ + (IF R.r.st = "ok" THEN R.r.n ELSE 0)]

NextTally ==
    \/ \E k \in Keys, v \in Vals : TallyInsert(1, k, v)
    \/ \E k \in Keys : TallyErase(1, k)
    \/ Return

SpecTally == Init /\ [][NextTally]_vars

\* initializer lists of at most two elements, repeated keys included
Lists == {<<>>} \cup {<<kv>> : kv \in PairKeys \X Vals}
            \cup {<<kv1, kv2>> : kv1 \in PairKeys \X Vals, kv2 \in PairKeys \X {0}}

\* two table objects: construction, copy, move, swap, destruction, and the
\* calls on either
NextPair ==
    \/ \E t \in Tables : Modify(t, PairKeys, {0}, {DefaultMaxLoad})
    \/ \E t \in Tables, c \in 0..MaxCap : ConstructCap(t, c)
    \/ \E t \in Tables, init \in Lists : ConstructList(t, init)
    \/ \E t \in Tables : CopyConstruct(t, Other(t))
    \/ \E t \in Tables : MoveConstruct(t, Other(t))
    \/ \E t \in Tables, u \in Tables : CopyAssign(t, u)
    \/ \E t \in Tables, u \in Tables : MoveAssign(t, u)
    \/ \E t \in Tables : Swap(t, Other(t))
    \/ \E t \in Tables : Destroy(t)
    \/ Return

SpecPair == InitPair /\ [][NextPair]_vars

\* two tables whose chains grow to three nodes: insert, erase, rehash (by
\* growth and by reserve), clear and swap
NextLinks ==
    \/ \E t \in Tables, c \in 0..MaxCap : ConstructCap(t, c)
    \/ \E t \in Tables, k \in ChainKeys : Insert(t, k, DefaultValue)
    \/ \E t \in Tables, k \in ChainKeys : Erase(t, k)
    \/ \E t \in Tables : Clear(t)
    \/ \E t \in Tables : Reserve(t, 0)
    \/ \E t \in Tables : Swap(t, Other(t))
    \/ Return

SpecLinks == InitPair /\ [][NextLinks]_vars

\* HashTable(const HashTable& other) in a free slot, while the heap has an
\* address for every node of other
CopyConstructFull(t, u) ==
    /\ pc = "idle" /\ ~tbl[t].alive /\ tbl[u].alive
    /\ Cardinality(FreeIds(heap)) >= tbl[u].size
    /\ LET R == copy_from(heap, Members, tbl[u], dup)
       IN  Apply2(t, u, R.h, R.T, tbl[u], "HashTable(const&)")

\* operator=(const HashTable& other), while the heap has an address for
\* every node of other once this table is cleared; u = t is self-assignment
CopyAssignFull(t, u) ==
    /\ pc = "idle" /\ tbl[t].alive /\ tbl[u].alive
    /\ t # u => Cardinality(FreeIds(heap)) + tbl[t].size >= tbl[u].size
    /\ LET R == copy_assign(heap, tbl[t], tbl[u], t = u, dup)
       IN  Apply2(t, u, R.h, R.T, IF t = u THEN R.T ELSE tbl[u], "operator=(const&)")

\* two tables, one filled by insert and copied into the other by the copy
\* constructor or by copy assignment, then changed independently
NextCopy ==
    \/ \E t \in Tables, c \in 0..MaxCap : ConstructCap(t, c)
    \/ \E t \in Tables, k \in PairKeys, v \in Vals : Build(t, k, v)
    \/ \E t \in Tables : CopyConstructFull(t, Other(t))
    \/ \E t \in Tables, u \in Tables : CopyAssignFull(t, u)
    \/ \E t \in Tables, k \in PairKeys : Erase(t, k)
    \/ \E t \in Tables : Clear(t)
    \/ \E t \in Tables : Destroy(t)
    \/ Return

SpecCopy == InitPair /\ [][NextCopy]_vars

\* two tables of any initial capacity, filled by insert in any order, and
\* compared
NextEq ==
    \/ \E t \in Tables, c \in (0..MaxCap) \cup {DefaultCapacity} : ConstructCap(t, c)
    \/ \E t \in Tables, k \in PairKeys, v \in Vals : Build(t, k, v)
    \/ \E t \in Tables, u \in Tables : Equals(t, u)
    \/ \E t \in Tables, u \in Tables : NotEquals(t, u)
    \/ \E t \in Tables, u \in Tables : SetNotEquals(t, u)
    \/ Return

SpecEq == InitPair /\ [][NextEq]_vars

---------------------------------------------------------------------------
(* What the claims speak of *)

\* the live nodes linked into table T
Nodes(h, T) == {AllNodes(h, T)[i] : i \in 1..Len(AllNodes(h, T))}

\* some node anywhere in T holds key k
KeyPresent(h, T, k) == \E n \in Nodes(h, T) : h[n].key = k

RECURSIVE ChainLengthSum(_, _, _)
\* the sum over buckets i.. of the length of the bucket's chain
ChainLengthSum(h, T, i) ==
    IF i > Len(T.buckets) THEN 0
    ELSE Len(Chain(h, T.buckets[i])) + ChainLengthSum(h, T, i + 1)

\* the table the last call was made on
Called == tbl[ret.t]

InsertOps == {"insert", "try_emplace", "insert_or_assign"}

IndexOps == {"operator[]", "operator[]&&"}

---------------------------------------------------------------------------
(* C1..C10 *)

\* C1: in every reachable state of every table object, size() equals the
\* sum over all buckets of the length of the bucket's chain.
SizeIsChainLengthSum ==
    \A t \in Tables : tbl[t].alive => tbl[t].size = ChainLengthSum(heap, tbl[t], 1)

\* C1 witness: two tables just swapped, one holding a chain of two nodes in
\* one bucket, the other holding one node.
SwappedWithChains ==
    /\ pc = "returned" /\ ret.op = "swap"
    /\ tbl[1].size = 2 /\ tbl[2].size = 1
    /\ \E i \in 1..Len(tbl[1].buckets) : Len(Chain(heap, tbl[1].buckets[i])) = 2

\* C2: after any sequence of insert and erase calls on an initially empty
\* table, size() is the number of inserts that returned true minus the sum
\* of the counts erase returned; without duplicates that is the number of
\* distinct keys present.
SizeIsInsertsMinusErased ==
    /\ tbl[1].size = acct.ins - acct.era
    /\ ~dup => tbl[1].size = Cardinality({k \in Keys : KeyPresent(heap, tbl[1], k)})

\* C2 witness: three inserts took, erase removed at least one entry, and two
\* entries are left.
TalliedInsertsAndErases ==
    acct.ins >= 3 /\ acct.era >= 1 /\ tbl[1].size >= 2

\* C3: bucket_count() >= 1 for every table object in every reachable state
\* (after construction with any capacity or initializer list, copy, move,
\* swap, reserve).
BucketCountAtLeastOne ==
    \A t \in Tables : tbl[t].alive => bucket_count(tbl[t]) >= 1

\* C4: immediately after every call that added a node,
\* size() / bucket_count() <= max_load_factor().
LoadWithinMaxAfterInsertion ==
    (pc = "returned" /\ ret.made # 0) =>
        Called.size * LoadDen <= Called.max_load * bucket_count(Called)

\* C5: without duplicates, insert (and emplace) of a key that is present
\* returns false with the position of the existing element and leaves the
\* heap and the table as they were.
InsertOfPresentKeyChangesNothing ==
    [][(/\ pc = "idle" /\ pc' # "idle"
        /\ ret'.op = "insert" /\ ~dup
        /\ KeyPresent(heap, tbl[ret'.t], ret'.key))
       => (/\ ret'.st = "ok" /\ ~ret'.flag
           /\ ret'.node \in Nodes(heap, tbl[ret'.t])
           /\ heap[ret'.node].key = ret'.key
           /\ heap' = heap /\ tbl' = tbl)]_vars

\* C5 witness: an insert was refused for a key whose node is not the head of
\* its chain and holds another value than the one offered.
InsertRefusedDeepInChain ==
    /\ pc = "returned" /\ ret.op = "insert" /\ ~ret.flag /\ ~dup
    /\ ret.node # 0
    /\ heap[ret.node].val # ret.val
    /\ ret.node # BucketHead(Called, bucket_index(Called, ret.key))

\* C6: insert(k, v) of a key that is absent, or into a duplicate-allowing
\* table, followed at once by find(k), yields a position that is not end and
\* whose element is (k, v).  (An insert that does not add a node returns
\* false; one on a table without buckets does not return.)
InsertThenFindYieldsElement ==
    (pc # "idle" /\ ret.op = "insert" /\ (ret.flag \/ ret.st = "crash")) =>
        /\ ret.st = "ok"
        /\ LET it == find(heap, Called, ret.key).r.node
           IN  it # 0 /\ heap[it].key = ret.key /\ heap[it].val = ret.val

\* C7: when insert, try_emplace or insert_or_assign returns true, the
\* position returned is the node the call created, holding the key and value
\* given.
ReturnedPositionIsNewNode ==
    (pc = "returned" /\ ret.op \in InsertOps /\ ret.flag) =>
        /\ ret.node = ret.made
        /\ heap[ret.made].key = ret.key /\ heap[ret.made].val = ret.val

\* C8: at(k) for a key that is present returns the value of the node whose
\* key is k.
AtReturnsValueOfKey ==
    (pc = "returned" /\ ret.op = "at" /\ KeyPresent(heap, Called, ret.key)) =>
        /\ ret.st = "ok"
        /\ ret.node \in Nodes(heap, Called)
        /\ heap[ret.node].key = ret.key
        /\ ret.n = heap[ret.node].val

\* C9: on a key that is absent, at throws and find, count and erase return
\* end, 0 and 0; each leaves the table as it was.
AbsentKeyLookups ==
    [][(/\ pc = "idle" /\ pc' = "returned"
        /\ ret'.op \in {"at", "find", "count", "erase"}
        /\ ~KeyPresent(heap, tbl[ret'.t], ret'.key))
       => (/\ heap' = heap /\ tbl' = tbl
           /\ ret'.st = (IF ret'.op = "at" THEN "throw" ELSE "ok")
           /\ ret'.node = 0 /\ ret'.n = 0)]_vars

\* C10: operator[](k) returns: for a present key a reference to the value of
\* k's node, nothing changed; for an absent key exactly one new node
\* (k, default), size() grown by one, and the reference is the value slot of
\* that new node.
IndexReturnsSlotOfKey ==
    [][(pc = "idle" /\ pc' # "idle" /\ ret'.op \in IndexOps
        /\ bucket_count(tbl[ret'.t]) >= 1)
       => /\ ret'.st = "ok"
          /\ IF KeyPresent(heap, tbl[ret'.t], ret'.key)
             THEN /\ heap' = heap /\ tbl' = tbl
                  /\ ret'.node \in Nodes(heap, tbl[ret'.t])
                  /\ heap[ret'.node].key = ret'.key
             ELSE /\ ret'.made # 0
                  /\ ret'.node = ret'.made
                  /\ Nodes(heap', tbl'[ret'.t]) = Nodes(heap, tbl[ret'.t]) \cup {ret'.made}
                  /\ heap'[ret'.made].key = ret'.key
                  /\ heap'[ret'.made].val = DefaultValue
                  /\ tbl'[ret'.t].size = tbl[ret'.t].size + 1]_vars


---------------------------------------------------------------------------
(* C11..C20 *)

\* the nodes of T that hold key k
NodesOfKey(h, T, k) == {n \in Nodes(h, T) : h[n].key = k}

\* C11: every call runs to completion: no call, operator[] on an rvalue key
\* included, is left running for ever.
EveryCallCompletes == pc # "looping"

\* C12: erase(k) returns the number of entries it removed and size() drops
\* by that number: without duplicates the first match (1 if k was present,
\* else 0), with duplicates every entry of key k; afterwards find(k) is end
\* and count(k) is 0.
EraseRemovesAndCounts ==
    [][(pc = "idle" /\ pc' # "idle" /\ ret'.op = "erase")
       => LET T == tbl[ret'.t]
              k == ret'.key
              had == NodesOfKey(heap, T, k)
              gone == Nodes(heap, T) \ Nodes(heap', tbl'[ret'.t])
          IN  /\ ret'.st = "ok"
              /\ ret'.n = (IF dup THEN Cardinality(had)
                           ELSE IF had # {} THEN 1 ELSE 0)
              /\ tbl'[ret'.t].size = T.size - ret'.n
              /\ gone = (IF dup THEN had
                         ELSE IF had # {} THEN {find_node(heap, T, k, bucket_index(T, k))}
                         ELSE {})
              /\ Nodes(heap', tbl'[ret'.t]) \subseteq Nodes(heap, T)
              /\ \A n \in gone : ~heap'[n].live
              /\ find(heap', tbl'[ret'.t], k).r.node = 0
              /\ count(heap', tbl'[ret'.t], k).r.n = 0]_vars

\* C13: erase(k) of a key that is absent returns 0 and leaves size(),
\* bucket_count() and every chain as they were, other keys in k's bucket or
\* not.
EraseOfAbsentKeyChangesNothing ==
    [][(/\ pc = "idle" /\ pc' # "idle" /\ ret'.op = "erase"
        /\ ~KeyPresent(heap, tbl[ret'.t], ret'.key))
       => (/\ ret'.st = "ok" /\ ret'.n = 0
           /\ tbl'[ret'.t].size = tbl[ret'.t].size
           /\ bucket_count(tbl'[ret'.t]) = bucket_count(tbl[ret'.t])
           /\ tbl'[ret'.t].buckets = tbl[ret'.t].buckets
           /\ heap' = heap)]_vars


\* C14: in every reachable state, advancing from begin() until end() ends
\* after exactly size() advances and visits every live node exactly once; on
\* an empty table begin() == end().
IterationVisitsEveryNodeOnce ==
    /\ \A t \in Tables : tbl[t].alive =>
          LET W == range_for(heap, tbl[t])
          IN  /\ W.ended
              /\ Len(W.visited) = tbl[t].size
              /\ \A i, j \in 1..Len(W.visited) : i # j => W.visited[i] # W.visited[j]
              /\ {W.visited[i] : i \in 1..Len(W.visited)} = {n \in NodeIds : heap[n].live}
              /\ tbl[t].size = 0 => iter_eq(begin(tbl[t]), end(tbl[t]))
    /\ (pc # "idle" /\ ret.op = "traverse") => ret.st = "ok" /\ ret.n = Called.size

\* C14 witness: a traversal of three nodes that starts after an empty bucket
\* and passes through a chain of two.
TraversedChainsAndGaps ==
    /\ pc = "returned" /\ ret.op = "traverse" /\ ret.n = 3
    /\ begin(Called).bucket > 0
    /\ \E i \in 1..Len(Called.buckets) : Len(Chain(heap, Called.buckets[i])) = 2
    /\ \E i \in 1..Len(Called.buckets) : Len(Chain(heap, Called.buckets[i])) = 1


\* how many entries of T hold the pair (k, v)
Copies(h, T, k, v) == Cardinality({n \in Nodes(h, T) : h[n].key = k /\ h[n].val = v})

\* T and U store the same key/value pairs, each as many times
SameElements(h, T, U) ==
    \A k \in Keys, v \in Vals : Copies(h, T, k, v) = Copies(h, U, k, v)

ReserveNeverShrinks ==
    [][(pc = "idle" /\ pc' # "idle" /\ ret'.op = "reserve")
       => bucket_count(tbl'[ret'.t]) >= bucket_count(tbl[ret'.t])]_vars

\* C17: after reserve(n), bucket_count() >= n, size() is as before, the same
\* nodes are linked with the same keys and values, each exactly once, every
\* key that was present is found and no other is.
ReservePreservesElements ==
    [][(pc = "idle" /\ pc' # "idle" /\ ret'.op = "reserve")
       => LET T == tbl[ret'.t]
              U == tbl'[ret'.t]
              was(k) == find_node(heap, T, k, bucket_index(T, k))
              now(k) == find(heap', U, k).r.node
          IN  /\ ret'.st = "ok"
              /\ bucket_count(U) >= ret'.n
              /\ U.size = T.size
              /\ U.max_load = T.max_load
              /\ Nodes(heap', U) = Nodes(heap, T)
              /\ Len(AllNodes(heap', U)) = Len(AllNodes(heap, T))
              /\ \A n \in Nodes(heap, T) :
                    /\ heap'[n].live
                    /\ heap'[n].key = heap[n].key /\ heap'[n].val = heap[n].val
              /\ \A n \in NodeIds \ Nodes(heap, T) : heap'[n] = heap[n]
              /\ \A k \in Keys :
                    IF KeyPresent(heap, T, k)
                    THEN /\ now(k) # 0 /\ heap'[now(k)].key = k
                         /\ ~dup => heap'[now(k)].val = heap[was(k)].val
                    ELSE now(k) = 0]_vars

\* C17 witness: reserve(8) returned on a table of three entries, two of them
\* in one chain of the new array.
ReservedWithChain ==
    /\ pc = "returned" /\ ret.op = "reserve" /\ ret.n = MinReserve
    /\ Called.size = 3 /\ bucket_count(Called) = MinReserve
    /\ \E i \in 1..Len(Called.buckets) : Len(Chain(heap, Called.buckets[i])) = 2


\* a default-constructed table (16 buckets, threshold 0.75) whose _size is n
DefaultTableOfSize(n) == [Construct(DefaultCapacity) EXCEPT !.size = n]

\* C18: a call that adds a node changes bucket_count() exactly when the new
\* size() / bucket_count() is strictly above max_load_factor(), and then to
\* exactly twice its value; afterwards every key present before and the new
\* key are found, the stored values unchanged (where keys are unique, find
\* yields the same value as before).  With 16 buckets and threshold 0.75, 12
\* entries keep 16 buckets and the 13th gives 32.
InsertionDoublesExactlyWhenOverloaded ==
    /\ bucket_count(check_load(EmptyHeap, DefaultTableOfSize(12)).T) = 16
    /\ bucket_count(check_load(EmptyHeap, DefaultTableOfSize(13)).T) = 32
    /\ [][(pc = "idle" /\ pc' # "idle" /\ ret'.made # 0)
          => LET T == tbl[ret'.t]
                 U == tbl'[ret'.t]
                 was(k) == find_node(heap, T, k, bucket_index(T, k))
                 now(k) == find(heap', U, k).r.node
             IN  /\ U.size = T.size + 1
                 /\ bucket_count(U) =
                       (IF U.size * LoadDen > T.max_load * bucket_count(T)
                        THEN 2 * bucket_count(T) ELSE bucket_count(T))
                 /\ Nodes(heap', U) = Nodes(heap, T) \cup {ret'.made}
                 /\ \A n \in Nodes(heap, T) :
                       heap'[n].key = heap[n].key /\ heap'[n].val = heap[n].val
                 /\ \A k \in Keys :
                       (KeyPresent(heap, T, k) \/ k = ret'.key) =>
                          /\ now(k) # 0 /\ heap'[now(k)].key = k
                          /\ (KeyPresent(heap, T, k) /\ ~dup) =>
                                heap'[now(k)].val = heap[was(k)].val
                          /\ ~KeyPresent(heap, T, k) => now(k) = ret'.made]_vars

\* C18 witness: an insertion that doubled the array to 4 buckets: the node
\* it made is no longer the head of its chain, the relinking having put the
\* older node of the bucket in front.
InsertedAndDoubled ==
    /\ pc = "returned" /\ ret.made # 0 /\ ret.st = "ok"
    /\ bucket_count(Called) = 4 /\ Called.max_load = DefaultMaxLoad
    /\ BucketHead(Called, bucket_index(Called, ret.key)) # ret.made
    /\ heap[BucketHead(Called, bucket_index(Called, ret.key))].next = ret.made


\* size() / bucket_count() > max_load_factor()
AboveMaxLoad(T) == T.size * LoadDen > T.max_load * bucket_count(T)

\* C19: erase, clear, find, count, at, equal_range, and insert / try_emplace
\* calls that return false, leave bucket_count() as it was.
NoGrowthWithoutInsertion ==
    [][(/\ pc = "idle" /\ pc' # "idle"
        /\ \/ ret'.op \in {"erase", "clear", "find", "count", "at", "equal_range"}
           \/ ret'.op \in {"insert", "try_emplace"} /\ ret'.st = "ok" /\ ~ret'.flag)
       => bucket_count(tbl'[ret'.t]) = bucket_count(tbl[ret'.t])]_vars

\* C19 witness: find returned a position on a table whose load is above its
\* threshold, and the table still has the 4 buckets it had.
FoundWhileAboveMaxLoad ==
    /\ pc = "returned" /\ ret.op = "find" /\ ret.node # 0
    /\ AboveMaxLoad(Called) /\ bucket_count(Called) = 4

\* C20: after clear(), size() is 0, every bucket head is empty (begin() ==
\* end(), count(k) == 0 for every key), every node is destroyed,
\* bucket_count() and max_load_factor() are as before, and the table takes
\* insertions as a fresh table of that capacity does.
ClearEmptiesAndKeepsCapacity ==
    [][(pc = "idle" /\ pc' # "idle" /\ ret'.op = "clear")
       => LET T == tbl[ret'.t]
              U == tbl'[ret'.t]
          IN  /\ ret'.st = "ok"
              /\ U.size = 0
              /\ \A i \in 1..Len(U.buckets) : U.buckets[i] = 0
              /\ iter_eq(begin(U), end(U))
              /\ \A n \in Nodes(heap, T) : ~heap'[n].live
              /\ bucket_count(U) = bucket_count(T)
              /\ U.max_load = T.max_load
              /\ U = [Construct(bucket_count(T)) EXCEPT !.max_load = T.max_load]
              /\ \A k \in Keys :
                    /\ count(heap', U, k).r.st = "ok"
                    /\ count(heap', U, k).r.n = 0
                    /\ insert(heap', U, k, DefaultValue, dup).r.flag]_vars



---------------------------------------------------------------------------
(* C21..C30 *)

\* C21: insert_or_assign(k, v) on a key that is present writes v into k's
\* node in place and returns false, size(), bucket_count() and every link
\* unchanged; on an absent key it adds one node (k, v), size() grows by one
\* and it returns true.  Either way find(k) then yields (k, v).
InsertOrAssignWritesOrAdds ==
    [][(pc = "idle" /\ pc' # "idle" /\ ret'.op = "insert_or_assign")
       => LET T == tbl[ret'.t]
              U == tbl'[ret'.t]
              k == ret'.key
              v == ret'.val
              was == find_node(heap, T, k, bucket_index(T, k))
              now == find(heap', U, k).r.node
          IN  /\ ret'.st = "ok"
              /\ IF KeyPresent(heap, T, k)
                 THEN /\ ~ret'.flag /\ ret'.made = 0
                      /\ U = T
                      /\ heap' = [heap EXCEPT ![was].val = v]
                 ELSE /\ ret'.flag /\ ret'.made # 0
                      /\ U.size = T.size + 1
                      /\ Nodes(heap', U) = Nodes(heap, T) \cup {ret'.made}
                      /\ ret'.made \notin Nodes(heap, T)
                      /\ heap'[ret'.made].key = k /\ heap'[ret'.made].val = v
                      /\ \A n \in Nodes(heap, T) :
                            heap'[n].key = heap[n].key /\ heap'[n].val = heap[n].val
              /\ now # 0 /\ heap'[now].key = k /\ heap'[now].val = v]_vars

\* C22: without duplicates, try_emplace(k, args) on a key that is present
\* returns false with the position of the existing element and changes
\* nothing; on an absent key it adds exactly one node holding the value
\* built from args, size() grows by one and it returns true.
TryEmplaceKeepsOrAdds ==
    [][(pc = "idle" /\ pc' # "idle" /\ ret'.op = "try_emplace" /\ ~dup)
       => LET T == tbl[ret'.t]
              U == tbl'[ret'.t]
              k == ret'.key
          IN  /\ ret'.st = "ok"
              /\ IF KeyPresent(heap, T, k)
                 THEN /\ ~ret'.flag /\ ret'.made = 0
                      /\ ret'.node \in NodesOfKey(heap, T, k)
                      /\ heap' = heap /\ tbl' = tbl
                 ELSE /\ ret'.flag /\ ret'.made # 0
                      /\ U.size = T.size + 1
                      /\ Nodes(heap', U) = Nodes(heap, T) \cup {ret'.made}
                      /\ ret'.made \notin Nodes(heap, T)
                      /\ heap'[ret'.made].key = k /\ heap'[ret'.made].val = ret'.val
                      /\ \A n \in Nodes(heap, T) :
                            heap'[n].key = heap[n].key /\ heap'[n].val = heap[n].val]_vars

\* C23: in every reachable state and for every key k, find(k) is not end
\* exactly when some node of the table holds k, count(k) is the number of
\* nodes of the whole table that hold k, and neither call changes the table.
FindAndCountSeeWholeTable ==
    [][(pc = "idle" /\ pc' # "idle" /\ ret'.op \in {"find", "count"})
       => LET T == tbl[ret'.t]
              k == ret'.key
          IN  /\ ret'.st = "ok"
              /\ heap' = heap /\ tbl' = tbl
              /\ ret'.op = "find" =>
                    /\ ret'.node # 0 <=> KeyPresent(heap, T, k)
                    /\ ret'.node # 0 => ret'.node \in NodesOfKey(heap, T, k)
              /\ ret'.op = "count" =>
                    /\ ret'.n = Cardinality(NodesOfKey(heap, T, k))
                    /\ ~dup => ret'.n \in {0, 1}]_vars

\* C24: equal_range(k) returns (end, end) when k is absent; when k is
\* present it returns (find(k), find(k) advanced once), a range of exactly
\* one element, also when duplicates make count(k) > 1.
EqualRangeIsOneElement ==
    [][(pc = "idle" /\ pc' # "idle" /\ ret'.op = "equal_range")
       => LET T == tbl[ret'.t]
              k == ret'.key
              it == find(heap, T, k).r.node
              after == {i \in 1..Len(range_for(heap, T).visited) :
                          range_for(heap, T).visited[i] = it}
          IN  /\ ret'.st = "ok"
              /\ heap' = heap /\ tbl' = tbl
              /\ IF KeyPresent(heap, T, k)
                 THEN /\ ret'.node = it /\ it # 0 /\ heap[it].key = k
                      /\ ret'.n # it
                      /\ \E i \in after :
                            ret'.n = (IF i = Len(range_for(heap, T).visited) THEN 0
                                      ELSE range_for(heap, T).visited[i + 1])
                 ELSE ret'.node = 0 /\ ret'.n = 0]_vars


\* C25: max_load_factor(f) makes max_load_factor() == f and re-checks the
\* load at once: if size() / bucket_count() > f the array grows so that
\* size() / bucket_count() <= f on return, otherwise bucket_count() is
\* unchanged; the stored elements are unchanged either way.
MaxLoadFactorRestoresLoad ==
    [][(pc = "idle" /\ pc' = "returned" /\ ret'.op = "max_load_factor")
       => LET T == tbl[ret'.t]
              U == tbl'[ret'.t]
              f == ret'.n
          IN  /\ U.max_load = f
              /\ U.size = T.size
              /\ Nodes(heap', U) = Nodes(heap, T)
              /\ \A n \in Nodes(heap, T) :
                    heap'[n].key = heap[n].key /\ heap'[n].val = heap[n].val
              /\ IF T.size * LoadDen > f * bucket_count(T)
                 THEN /\ bucket_count(U) > bucket_count(T)
                      /\ U.size * LoadDen <= f * bucket_count(U)
                 ELSE bucket_count(U) = bucket_count(T)]_vars

\* the links that point to node n: bucket heads of live tables, and _next
\* of live nodes
HeadsAt(n) == {<<t, i>> \in Tables \X (1..MaxBuckets) :
                    i <= Len(tbl[t].buckets) /\ tbl[t].buckets[i] = n}

PredecessorsOf(n) == {m \in NodeIds : heap[m].live /\ heap[m].next = n}

\* the buckets whose chain holds node n
ChainsHolding(n) == {<<t, i>> \in Tables \X (1..MaxBuckets) :
                        /\ i <= Len(tbl[t].buckets)
                        /\ \E j \in 1..Len(Chain(heap, tbl[t].buckets[i])) :
                              Chain(heap, tbl[t].buckets[i])[j] = n}

\* C26: in every reachable state each live node is pointed to by exactly
\* one link (a bucket head or a predecessor's _next), lies in the chain of
\* exactly one bucket, no chain loops, and no link points to a destroyed
\* node.
ExclusiveOwnership ==
    /\ \A n \in NodeIds : heap[n].live =>
          /\ Cardinality(HeadsAt(n)) + Cardinality(PredecessorsOf(n)) = 1
          /\ Cardinality(ChainsHolding(n)) = 1
          /\ heap[n].next # 0 => heap[heap[n].next].live
          /\ n \notin {ChainFrom(heap, heap[n].next, MaxNodes)[j] :
                          j \in 1..Len(ChainFrom(heap, heap[n].next, MaxNodes))}
    /\ \A n \in NodeIds : ~heap[n].live => HeadsAt(n) = {}

\* C26 witness: erase has just removed one node of a chain of three, the two
\* others still linked in one bucket, while the other table holds a node.
ErasedFromChainOfThree ==
    /\ pc = "returned" /\ ret.op = "erase" /\ ret.n = 1
    /\ Called.size = 2
    /\ Len(Chain(heap, BucketHead(Called, bucket_index(Called, ret.key)))) = 2
    /\ tbl[Other(ret.t)].alive


\* C27: with duplicates allowed every insert(k, v) succeeds: it returns
\* true, size() grows by one, count(k) grows by exactly one whether k was
\* present or not, and the entries already stored keep their values.
DuplicateInsertAlwaysAdds ==
    [][(pc = "idle" /\ pc' # "idle" /\ ret'.op = "insert" /\ dup)
       => LET T == tbl[ret'.t]
              U == tbl'[ret'.t]
              k == ret'.key
          IN  /\ ret'.st = "ok" /\ ret'.flag
              /\ U.size = T.size + 1
              /\ count(heap', U, k).r.n = Cardinality(NodesOfKey(heap, T, k)) + 1
              /\ NodesOfKey(heap', U, k) = NodesOfKey(heap, T, k) \cup {ret'.made}
              /\ heap'[ret'.made].val = ret'.val
              /\ \A n \in Nodes(heap, T) :
                    /\ n \in Nodes(heap', U)
                    /\ heap'[n].key = heap[n].key /\ heap'[n].val = heap[n].val]_vars

\* the 0-based index of the bucket whose chain holds node n
BucketOf(h, T, n) ==
    CHOOSE i \in 0..(Len(T.buckets) - 1) :
        \E j \in 1..Len(Chain(h, T.buckets[i + 1])) : Chain(h, T.buckets[i + 1])[j] = n

\* C28: erase(k) never relocates a surviving node: only nodes of key k are
\* removed (at most one without duplicates), every other node stays in its
\* bucket with its value, and the traversal from begin() to end() after the
\* call is the traversal before it with the removed nodes left out.
EraseKeepsSurvivorsInPlace ==
    [][(pc = "idle" /\ pc' # "idle" /\ ret'.op = "erase")
       => LET T == tbl[ret'.t]
              U == tbl'[ret'.t]
              removed == Nodes(heap, T) \ Nodes(heap', U)
              before == range_for(heap, T).visited
              after == range_for(heap', U).visited
          IN  /\ removed \subseteq NodesOfKey(heap, T, ret'.key)
              /\ ~dup => Cardinality(removed) <= 1
              /\ bucket_count(U) = bucket_count(T)
              /\ after = SelectSeq(before, LAMBDA n : n \notin removed)
              /\ \A n \in Nodes(heap', U) :
                    /\ BucketOf(heap', U, n) = BucketOf(heap, T, n)
                    /\ heap'[n].key = heap[n].key /\ heap'[n].val = heap[n].val
              /\ \A u \in Tables \ {ret'.t} : tbl'[u] = tbl[u]]_vars

\* C28 witness: without duplicates erase removed one node of a bucket of
\* three in an array of 4, and two survive in that bucket.
ErasedOneOfThreeUnique ==
    /\ pc = "returned" /\ ret.op = "erase" /\ ret.n = 1 /\ ~dup
    /\ bucket_count(Called) = 4
    /\ Len(Chain(heap, BucketHead(Called, bucket_index(Called, ret.key)))) = 2

\* C29: in every reachable state every node in the chain of bucket i holds
\* a key k with hash(k) mod bucket_count() = i.
PlacementInvariant ==
    \A t \in Tables : tbl[t].alive =>
        \A i \in 1..Len(tbl[t].buckets) :
            \A j \in 1..Len(Chain(heap, tbl[t].buckets[i])) :
                Hash(get_key(heap, Chain(heap, tbl[t].buckets[i])[j]))
                    % bucket_count(tbl[t]) = i - 1

\* C29 witness: two tables have just been swapped, one with 8 buckets and
\* its two keys in different buckets, the other with fewer buckets.
SwappedTablesOfDifferentCapacity ==
    /\ pc = "returned" /\ ret.op = "swap"
    /\ bucket_count(tbl[1]) = MinReserve /\ tbl[1].size = 2
    /\ \A i \in 1..Len(tbl[1].buckets) : Len(Chain(heap, tbl[1].buckets[i])) <= 1
    /\ bucket_count(tbl[2]) \in 1..4 /\ tbl[2].size = 1

\* C30: without duplicates no reachable state holds two nodes with equal
\* keys in one table.
UniqueKeys ==
    ~dup => \A t \in Tables : \A n, m \in Nodes(heap, tbl[t]) :
                heap[n].key = heap[m].key => n = m

\* C30 witness: without duplicates an insert was refused on a table of 8
\* buckets (reserved, or the target of a copy) that holds the key, while the
\* other table holds the same key.
RefusedOnCopyHoldingKey ==
    /\ pc = "returned" /\ ret.op = "insert" /\ ~ret.flag /\ ~dup
    /\ bucket_count(Called) = MinReserve
    /\ KeyPresent(heap, Called, ret.key)
    /\ KeyPresent(heap, tbl[Other(ret.t)], ret.key)



---------------------------------------------------------------------------
(* C31..C33 *)

\* C31: equality is symmetric: for two tables a and b of one configuration,
\* a == b and b == a give the same result.
EqualityIsSymmetric ==
    (pc # "idle" /\ ret.op = "operator==" /\ ret.t # ret.n) =>
        LET back == operator_eq(heap, tbl[ret.n], tbl[ret.t]).r
        IN  ret.st = "ok" /\ back.st = "ok" /\ ret.flag = back.flag


\* C32: a != b is the negation of a == b, for HashTable::operator!= and for
\* Unordered_Set::operator!=.
NotEqualNegatesEqual ==
    (pc # "idle" /\ ret.op \in {"operator!=", "Unordered_Set::operator!="}) =>
        LET eq == operator_eq(heap, tbl[ret.t], tbl[ret.n]).r
        IN  ret.st = "ok" /\ eq.st = "ok" /\ ret.flag = ~eq.flag


CopyOps == {"HashTable(const&)", "operator=(const&)"}

\* C33: copy construction and copy assignment give a table with the same
\* elements as the source, each as many times (same size(), and copy ==
\* source), leave the source unchanged and share no node with it, so that a
\* later insert, erase or clear on one table does not change the other;
\* self-assignment changes nothing.
CopyIsEqualAndIndependent ==
    [][(pc = "idle" /\ pc' # "idle")
       => LET t == ret'.t
              u == ret'.n
          IN  /\ (ret'.op \in CopyOps /\ t # u) =>
                    /\ tbl'[u] = tbl[u]
                    /\ \A n \in Nodes(heap, tbl[u]) : heap'[n] = heap[n]
                    /\ tbl'[t].size = tbl[u].size
                    /\ SameElements(heap', tbl'[t], tbl[u])
                    /\ operator_eq(heap', tbl'[t], tbl'[u]).r.st = "ok"
                    /\ operator_eq(heap', tbl'[t], tbl'[u]).r.flag
                    /\ Nodes(heap', tbl'[t]) \cap Nodes(heap', tbl'[u]) = {}
              /\ (ret'.op \in CopyOps /\ t = u) =>
                    heap' = heap /\ tbl' = tbl
              /\ ret'.op \in {"insert", "erase", "clear"} =>
                    /\ tbl'[Other(t)] = tbl[Other(t)]
                    /\ \A n \in Nodes(heap, tbl[Other(t)]) : heap'[n] = heap[n]]_vars


=============================================================================
